---- MODULE Spec2Model ----
(***************************************************************************)
(* The research workflow of the side-quest research agent: one POST        *)
(* request (src/app/api/chat/route.ts) creates the orchestrator            *)
(* (createChatAgent, src/app/agents/chat/agent.ts), a bounded tool loop    *)
(* whose tools are the web search and three sub-agents wrapped as tools    *)
(* (random-tangents, fact-checker, summarizer).  The loop's steps, the     *)
(* tool executions, the nested sub-agent loops, the abort signal each of   *)
(* them is given, the UI stream events of every tool call and the tool     *)
(* part the client rebuilds from them are the state.  The page             *)
(* (src/app/page.tsx) follows: the message rebuilt from the stream, the    *)
(* sources and tool activity derived from the messages, and the Chat       *)
(* component with its side-quest count and search log.                     *)
(***************************************************************************)
EXTENDS Integers, Sequences, FiniteSets, TLC

VARIABLES
    response,    \* what POST returned: "none", "stream" or "http500"
    reqAborted,  \* the request's own signal (req.signal): the client went away
    pc,          \* orchestrator loop: "idle", "ready", "model", "done"
    steps,       \* model round-trips of the orchestrator in this turn
    calls,       \* the tool calls of the current step, in emission order
    history,     \* steps whose tool calls and tool results are in the history
    outcome,     \* how the stream ended: "none", "ready", "error", "aborted"
    streamError, \* the error text of a terminal error event, "" otherwise
    reqBody,     \* the body of the request POST was called with, "" before
    payload,     \* the error field of the JSON payload POST answered with
    requests,    \* the turns of several conversations served side by side
    agentState,  \* what the module-level sub-agent instances hold besides settings
    log,         \* client: the stream events of the assistant message, as arrived
    parts,       \* client: the parts of the assistant message rebuilt from them
    message,     \* client: a message whose sources are rendered
    sources,     \* client: the source list rendered for it
    messages,    \* client: the messages of the conversation, each its parts
    activities,  \* client: the tool activity labels of the loader
    status,      \* client: useChat status: "ready", "submitted", "streaming", "error"
    transcript,  \* client: the conversation held by useChat, oldest message first
    sideQuestCount, \* client: the side-quest counter
    searchLog,   \* client: the search log, entries of query and reason
    input,       \* client: the input state of Chat, the value prop of the input
    inputText,   \* client: the text state of the input component (the textarea)
    turn         \* the round-trips of one turn, counted: a record

requestVars == <<reqBody, payload>>

concVars == <<requests, agentState>>

serverVars ==
    <<response, reqAborted, pc, steps, calls, history, outcome, streamError,
      requestVars, concVars>>

streamVars == <<log, parts>>

sourceVars == <<message, sources>>

activityVars == <<messages, activities>>

chatVars == <<status, transcript, sideQuestCount, searchLog>>

viewVars == <<sourceVars, activityVars, chatVars>>

clientVars == <<streamVars, viewVars>>

inputVars == <<input, inputText>>

budgetVars == <<turn>>

sideVars == <<budgetVars, inputVars>>

vars == <<serverVars, clientVars, sideVars>>

\* Tool calls the model may batch into one step (the loop does not limit it).
MaxCalls == 2

\* stopWhen: stepCountIs(15) of the orchestrator.
OrchMaxSteps == 15
\* stopWhen: stepCountIs(5) of the three sub-agents.
TangentMaxSteps == 5
FactCheckMaxSteps == 5
SummarizerMaxSteps == 5

\* tools: {...} of createChatAgent.
OrchTools == {"tavilySearch", "findRandomTangents", "factCheck", "summarize"}

\* The tools that wrap a sub-agent loop.
IsSubAgent(t) == t \in {"findRandomTangents", "factCheck", "summarize"}

\* Sub-agents that are all given the search tool.
SubToolsForAll(t) == {"tavilySearch"}

\* A tangent agent that is given the fact-check tool beside search.
SubToolsNested(t) ==
    IF t = "findRandomTangents" THEN {"tavilySearch", "factCheck"} ELSE {}

\* tools: {...} of each sub-agent: only the tangent agent can search.
SubTools(t) ==
    IF t = "findRandomTangents" THEN {"tavilySearch"} ELSE {}

SubMaxSteps(t) ==
    CASE t = "findRandomTangents" -> TangentMaxSteps
      [] t = "factCheck" -> FactCheckMaxSteps
      [] OTHER -> SummarizerMaxSteps

\* A stop condition that is met one step late.
OrchStopWhenLate(count) == count = OrchMaxSteps + 1

\* A stop condition that is never met.
OrchStopWhenNever(count) == FALSE

\* stepCountIs(n): the stop condition met once n steps have been made.
OrchStopWhen(count) == count = OrchMaxSteps

\* A sub-agent loop whose stop condition is met one step late.
SubStopWhenLate(t, count) == count = SubMaxSteps(t) + 1

SubStopWhen(t, count) == count = SubMaxSteps(t)

(***************************************************************************)
(* Abort signals.  POST hands createAgentUIStreamResponse the agent and    *)
(* the messages and nothing else, so the loop runs with no signal; every   *)
(* tool's execute receives the loop's signal and passes it on to the       *)
(* sub-agent's generate call.                                              *)
(***************************************************************************)
NoSignal == "undefined"
RequestSignal == "req.signal"

\* The loop run with the request's signal.
OrchSignalFromRequest == RequestSignal

OrchSignal == NoSignal

ToolSignal == OrchSignal

SubSignal(t) == ToolSignal

Aborted(sig) == sig = RequestSignal /\ reqAborted

(***************************************************************************)
(* Tool parts as the client sees them.  A stream event of a tool call sets *)
(* the state of that call's part.                                          *)
(***************************************************************************)
PartStates ==
    {"input-streaming", "input-available", "output-available", "output-error"}

StreamEvents == {"start", "args", "result", "error"}

ApplyEvent(state, ev) ==
    CASE ev = "start" -> "input-streaming"
      [] ev = "args" -> "input-available"
      [] ev = "result" -> "output-available"
      [] OTHER -> "output-error"

\* A tool call of the step whose input the model has begun to stream.
NewCall(t) ==
    [tool |-> t, state |-> ApplyEvent("none", "start"), events |-> <<"start">>,
     run |-> "none", subSteps |-> 0, errorText |-> "",
     input |-> "streaming", executed |-> FALSE]

\* The call after one more stream event.
Emit(c, ev) ==
    [c EXCEPT !.state = ApplyEvent(c.state, ev), !.events = Append(c.events, ev)]

\* The call settled with the tool's output.
Settled(c) == [Emit(c, "result") EXCEPT !.run = "end", !.subSteps = 0]

\* The call settled with an error text.
Failed(c, text) ==
    [Emit(c, "error") EXCEPT !.run = "end", !.subSteps = 0, !.errorText = text]

Ended(c) == c.run = "end"

AllEnded == \A i \in 1..Len(calls) : Ended(calls[i])

\* The client before anything has arrived.
ClientInit ==
    /\ log = <<>>
    /\ parts = <<>>
    /\ message = <<>>
    /\ sources = <<>>
    /\ messages = <<>>
    /\ activities = <<>>
    /\ status = "ready"
    /\ transcript = <<>>
    /\ sideQuestCount = 0
    /\ searchLog = <<>>
    /\ input = ""
    /\ inputText = input

\* Requests served side by side, and orchestrator steps of each.
MaxRequests == 2

MaxRequestSteps == 2

Requests == 1..MaxRequests

SubAgents == {t \in OrchTools : IsSubAgent(t)}

\* A request before POST is called for it: its own loop state.
NewRequest ==
    [pc |-> "idle", steps |-> 0, history |-> 0, outcome |-> "none",
     calls |-> <<>>]

\* The sub-agents are created once, with settings only.
ConcInit ==
    /\ requests = [r \in Requests |-> NewRequest]
    /\ agentState = [t \in SubAgents |-> 0]

\* Tool calls in one response of the orchestrator's model.
MaxStepCalls == 2

\* A turn before its first round-trip: no step, no sub-agent loop started.
NewTurn ==
    [pc |-> "ready", steps |-> 0, pending |-> 0, tool |-> "none",
     subSteps |-> 0, loops |-> 0, trips |-> 0, single |-> TRUE]

BudgetInit == turn = NewTurn

ServerInit ==
    /\ response = "none"
    /\ reqAborted = FALSE
    /\ pc = "idle"
    /\ steps = 0
    /\ calls = <<>>
    /\ history = 0
    /\ outcome = "none"
    /\ streamError = ""
    /\ reqBody = ""
    /\ payload = ""

Init == ServerInit /\ ConcInit /\ ClientInit /\ BudgetInit

(***************************************************************************)
(* POST: parse the body, create the agent, return the stream response; a   *)
(* throw on the way is answered with status 500.                           *)
(***************************************************************************)
\* A body with a messages array, a body that is not JSON, and a JSON body of
\* another shape (no messages).
Bodies == {"messages", "malformed", "noMessages"}

\* The messages of the exceptions req.json() throws on a body that is not
\* JSON (an exception may also carry no message).
ParseErrors == {"", "Unexpected end of JSON input", "Unexpected token"}

\* JavaScript's a || b on strings: the empty (or missing) string is falsy.
Or(a, b) == IF a # "" THEN a ELSE b

\* The error field of the status-500 payload.
ErrorPayload(errorMessage) == Or(errorMessage, "Internal server error")

\* createAgentUIStreamResponse is returned un-awaited: a body without messages
\* makes its promise reject after POST has left the try block, so the catch
\* block does not run and POST itself rejects.
POST(body, errorMessage) ==
    /\ response = "none"
    /\ reqBody' = body
    /\ CASE body = "malformed" ->
              /\ response' = "http500"
              /\ payload' = ErrorPayload(errorMessage)
              /\ UNCHANGED pc
         [] body = "noMessages" ->
              /\ response' = "rejected"
              /\ UNCHANGED <<pc, payload>>
         [] OTHER ->
              /\ response' = "stream"
              /\ pc' = "ready"
              /\ UNCHANGED payload
    /\ UNCHANGED <<reqAborted, steps, calls, history, outcome, streamError>>

\* The client aborts the request (stop, navigation, lost connection).
Abort ==
    /\ response = "stream"
    /\ outcome = "none"
    /\ ~reqAborted
    /\ reqAborted' = TRUE
    /\ UNCHANGED <<response, pc, steps, calls, history, outcome, streamError>>

(***************************************************************************)
(* The orchestrator loop.                                                  *)
(***************************************************************************)
\* A step begins: one model round-trip, unless the loop's signal is aborted.
OrchCallModel ==
    /\ pc = "ready"
    /\ IF Aborted(OrchSignal)
       THEN /\ pc' = "done"
            /\ outcome' = "aborted"
            /\ UNCHANGED <<steps, calls>>
       ELSE /\ pc' = "model"
            /\ steps' = steps + 1
            /\ calls' = <<>>
            /\ UNCHANGED outcome
    /\ UNCHANGED <<response, reqAborted, history, streamError>>

\* A failed model call that is tried again instead of ending the turn.
ModelFailRetried ==
    /\ pc = "model"
    /\ calls = <<>>
    /\ streamError = ""
    /\ pc' = "ready"
    /\ streamError' = "ModelError"
    /\ UNCHANGED <<response, reqAborted, steps, calls, history, outcome>>

\* The model call fails: the turn ends with a terminal error event.
ModelFail ==
    /\ pc = "model"
    /\ calls = <<>>
    /\ pc' = "done"
    /\ outcome' = "error"
    /\ streamError' = "ModelError"
    /\ UNCHANGED <<response, reqAborted, steps, calls, history>>

\* The model starts to stream a call of tool t.
ModelToolStart(t) ==
    /\ pc = "model"
    /\ Len(calls) < MaxCalls
    /\ \A i \in 1..Len(calls) : calls[i].state # "input-streaming"
    /\ calls' = Append(calls, NewCall(t))
    /\ UNCHANGED <<response, reqAborted, pc, steps, history, outcome, streamError>>

\* A dispatch that announces the call a second time.
DispatchRestarted(c) ==
    [Emit(Emit(c, "start"), "args") EXCEPT
        !.run = IF IsSubAgent(c.tool) THEN "subReady" ELSE "exec",
        !.executed = TRUE]

\* Where a call goes once its input has passed the tool's inputSchema: the
\* tool's execute is called (a sub-agent tool starts its agent's loop).
Dispatch(c) ==
    [Emit(c, "args") EXCEPT
        !.run = IF IsSubAgent(c.tool) THEN "subReady" ELSE "exec",
        !.executed = TRUE]

\* The call with its complete input parsed against the tool's inputSchema.
Parsed(c, valid) == [c EXCEPT !.input = IF valid THEN "valid" ELSE "invalid"]

\* A loop that dispatches the call whatever the parse said.
ModelToolArgsUnchecked(valid) ==
    /\ pc = "model"
    /\ Len(calls) > 0
    /\ calls[Len(calls)].state = "input-streaming"
    /\ calls' = [calls EXCEPT ![Len(calls)] = Dispatch(Parsed(@, valid))]
    /\ UNCHANGED <<response, reqAborted, pc, steps, history, outcome, streamError>>

\* The input of the streamed call is complete: it is checked against the
\* tool's inputSchema and the tool is dispatched, or the call is an error.
ModelToolArgs(valid) ==
    /\ pc = "model"
    /\ Len(calls) > 0
    /\ calls[Len(calls)].state = "input-streaming"
    /\ calls' = [calls EXCEPT ![Len(calls)] =
                    IF valid THEN Dispatch(Parsed(@, TRUE))
                    ELSE Failed(Parsed(@, FALSE), "InvalidInput")]
    /\ UNCHANGED <<response, reqAborted, pc, steps, history, outcome, streamError>>

(***************************************************************************)
(* Tool executions.  Each runs inside the step that dispatched it.         *)
(***************************************************************************)
\* A search that reports its results although the call has settled already.
SearchReturnTwice(i) ==
    /\ pc = "model"
    /\ calls[i].tool = "tavilySearch"
    /\ calls[i].run \in {"exec", "end"}
    /\ Len(calls[i].events) < 4
    /\ calls' = [calls EXCEPT ![i] = Settled(@)]
    /\ UNCHANGED <<response, reqAborted, pc, steps, history, outcome, streamError>>

\* The search tool returns its results.
SearchReturn(i) ==
    /\ pc = "model"
    /\ calls[i].run = "exec"
    /\ calls' = [calls EXCEPT ![i] = Settled(@)]
    /\ UNCHANGED <<response, reqAborted, pc, steps, history, outcome, streamError>>

\* A provider error that leaves the loop instead of staying with the call.
SearchFailThrows(i) ==
    /\ pc = "model"
    /\ calls[i].run = "exec"
    /\ calls' = [calls EXCEPT ![i] = Failed(@, "ToolError")]
    /\ pc' = "done"
    /\ outcome' = "error"
    /\ streamError' = "ToolError"
    /\ UNCHANGED <<response, reqAborted, steps, history>>

\* The search provider fails: the error belongs to the tool call.
SearchFail(i) ==
    /\ pc = "model"
    /\ calls[i].run = "exec"
    /\ calls' = [calls EXCEPT ![i] = Failed(@, "ToolError")]
    /\ UNCHANGED <<response, reqAborted, pc, steps, history, outcome, streamError>>

\* What the sub-agent's model may answer: text only, tool calls (when the
\* agent has tools), or a failure of the call.
SubResponses(t) ==
    {"text", "fail"} \cup (IF SubTools(t) = {} THEN {} ELSE {"toolCalls"})

\* One round-trip of the sub-agent loop behind execute's generate call.  An
\* aborted signal or a failed model call rejects generate, execute rejects
\* with it, and the rejection is the tool call's error.
SubCall(c, resp) ==
    IF Aborted(SubSignal(c.tool))
    THEN Failed(c, "AbortError")
    ELSE CASE resp = "fail" ->
                Failed([c EXCEPT !.subSteps = @ + 1], "ToolError")
           [] resp = "toolCalls" ->
                [c EXCEPT !.subSteps = @ + 1, !.run = "subTools"]
           [] OTHER ->
                Settled([c EXCEPT !.subSteps = @ + 1])

SubModelStep(i, resp) ==
    /\ pc = "model"
    /\ calls[i].run = "subReady"
    /\ resp \in SubResponses(calls[i].tool)
    /\ calls' = [calls EXCEPT ![i] = SubCall(@, resp)]
    /\ UNCHANGED <<response, reqAborted, pc, steps, history, outcome, streamError>>

\* The sub-agent's own tool calls have returned (a result or an error text
\* each): the sub-agent loop stops at its step limit and execute returns
\* result.text, or the loop goes on to its next round-trip.
SubAfterTools(c) ==
    IF Aborted(SubSignal(c.tool))
    THEN Failed(c, "AbortError")
    ELSE IF SubStopWhen(c.tool, c.subSteps)
         THEN Settled(c)
         ELSE [c EXCEPT !.run = "subReady"]

SubToolsDone(i) ==
    /\ pc = "model"
    /\ calls[i].run = "subTools"
    /\ calls' = [calls EXCEPT ![i] = SubAfterTools(@)]
    /\ UNCHANGED <<response, reqAborted, pc, steps, history, outcome, streamError>>

\* A step that ends without waiting for its tools.
StepCompleteEarly == \A i \in 1..Len(calls) : calls[i].state # "input-streaming"

\* The step may end once the model's output is complete and every tool call
\* of the step has its result or error.
StepComplete ==
    /\ \A i \in 1..Len(calls) : calls[i].state # "input-streaming"
    /\ AllEnded

\* The step ends: its tool calls and results join the history; the loop stops
\* when the response had no tool call or the stop condition is met.
StepFinish ==
    /\ pc = "model"
    /\ StepComplete
    /\ history' = history + 1
    /\ IF Len(calls) = 0 \/ OrchStopWhen(steps)
       THEN /\ pc' = "done"
            /\ outcome' = "ready"
       ELSE /\ pc' = "ready"
            /\ UNCHANGED outcome
    /\ UNCHANGED <<response, reqAborted, steps, calls, streamError>>

LoopStep ==
    \/ OrchCallModel
    \/ ModelFail
    \/ \E t \in OrchTools : ModelToolStart(t)
    \/ \E valid \in BOOLEAN : ModelToolArgs(valid)
    \/ \E i \in 1..Len(calls) : SearchReturn(i)
    \/ \E i \in 1..Len(calls) : SearchFail(i)
    \/ \E i \in 1..Len(calls) : \E r \in {"text", "fail", "toolCalls"} : SubModelStep(i, r)
    \/ \E i \in 1..Len(calls) : SubToolsDone(i)
    \/ StepFinish

\* What a step of the turn leaves alone: the request and the client.
TurnFrame == UNCHANGED <<requestVars, concVars, clientVars, sideVars>>

Loop == LoopStep /\ TurnFrame

Next ==
    \/ (\E body \in Bodies : \E errorMessage \in ParseErrors :
            POST(body, errorMessage)) /\ UNCHANGED <<concVars, clientVars, sideVars>>
    \/ Abort /\ TurnFrame
    \/ OrchCallModel /\ TurnFrame
    \/ ModelFail /\ TurnFrame
    \/ (\E t \in OrchTools : ModelToolStart(t)) /\ TurnFrame
    \/ (\E valid \in BOOLEAN : ModelToolArgs(valid)) /\ TurnFrame
    \/ (\E i \in 1..Len(calls) : SearchReturn(i)) /\ TurnFrame
    \/ (\E i \in 1..Len(calls) : SearchFail(i)) /\ TurnFrame
    \/ (\E i \in 1..Len(calls) : \E r \in {"text", "fail", "toolCalls"} :
            SubModelStep(i, r)) /\ TurnFrame
    \/ (\E i \in 1..Len(calls) : SubToolsDone(i)) /\ TurnFrame
    \/ StepFinish /\ TurnFrame

Spec == Init /\ [][Next]_vars

\* The model and every tool answer each call (with a result or a failure),
\* and the event loop runs every continuation that is ready.
FairSpec == Spec /\ WF_vars(Loop)

TypeOK ==
    /\ response \in {"none", "stream", "http500", "rejected"}
    /\ reqBody \in Bodies \cup {""}
    /\ payload \in {""} \cup {ErrorPayload(m) : m \in ParseErrors}
    /\ reqAborted \in BOOLEAN
    /\ pc \in {"idle", "ready", "model", "done"}
    /\ steps \in 0..OrchMaxSteps
    /\ Len(calls) <= MaxCalls
    /\ \A i \in 1..Len(calls) :
         /\ calls[i].tool \in OrchTools
         /\ calls[i].state \in PartStates
         /\ calls[i].run \in {"none", "exec", "subReady", "subTools", "end"}
         /\ calls[i].input \in {"streaming", "valid", "invalid"}
         /\ calls[i].executed \in BOOLEAN
    /\ outcome \in {"none", "ready", "error", "aborted"}

(***************************************************************************)
(* Properties.                                                             *)
(***************************************************************************)
Running(c) == c.run \in {"exec", "subReady", "subTools"}

SubRunning(c) == c.run \in {"subReady", "subTools"}

\* A step of the system that dispatches a tool: the orchestrator hands a
\* call to its tool, or a sub-agent loop hands its searches to the search tool.
DispatchStep ==
    \E i \in 1..Len(calls) :
        /\ i <= Len(calls')
        /\ \/ calls[i].run = "none" /\ Running(calls'[i])
           \/ calls[i].run = "subReady" /\ calls'[i].run = "subTools"

\* C1: in every run the orchestrator makes at most 15 model round-trips and
\* every sub-agent loop at most 5, whatever the model answers.
StepBudget ==
    /\ steps <= 15
    /\ \A i \in 1..Len(calls) : calls[i].subSteps <= 5

\* Both budgets used up: the 15th orchestrator step with a tangent loop that
\* has made its 5th round-trip.
BudgetExhausted ==
    /\ steps = 15
    /\ \E i \in 1..Len(calls) :
         calls[i].tool = "findRandomTangents" /\ calls[i].subSteps = 5

\* C2: the orchestrator loop always terminates; a step that ends without a
\* model failure stops the loop exactly when the response held no tool call or
\* the step count is 15, and the loop stopped that way is ready, not an error.
OrchTerminates ==
    /\ []<>(pc \in {"idle", "done"})
    /\ [][(pc = "model" /\ pc' # "model" /\ outcome' # "error")
            => /\ (Len(calls) = 0 \/ steps = 15) <=> pc' = "done"
               /\ pc' = "done" => outcome' = "ready"]_vars

\* The loop stopped by the step limit while the model still asked for tools.
StoppedAtLimit ==
    /\ pc = "done"
    /\ steps = 15
    /\ Len(calls) > 0
    /\ outcome = "ready"

\* C3: whenever the request is aborted, the orchestrator loop and every
\* running sub-agent generate call observe an aborted signal.
AbortSignalPropagates ==
    reqAborted =>
        /\ Aborted(OrchSignal)
        /\ \A i \in 1..Len(calls) :
             SubRunning(calls[i]) => Aborted(SubSignal(calls[i].tool))

\* C4: once the request is aborted no tool is dispatched any more.
NoDispatchAfterAbort == [][reqAborted => ~DispatchStep]_vars

\* C5: a failing tool execution stays with its tool call: the call's part
\* becomes output-error and the loop is still running its step.
ToolFailureRecovered ==
    [][\A i \in 1..Len(calls) :
          (/\ i <= Len(calls')
           /\ Running(calls[i])
           /\ calls'[i].errorText = "ToolError")
          => /\ calls'[i].state = "output-error"
             /\ pc' = "model"
             /\ outcome' = "none"]_vars

\* A turn that is ready although a tool of its last step failed.
ReadyAfterToolFailure ==
    /\ outcome = "ready"
    /\ \E i \in 1..Len(calls) :
         calls[i].errorText = "ToolError" /\ calls[i].state = "output-error"

StepsSequential ==
    /\ pc = "model" => history = steps - 1
    /\ (pc = "ready" \/ outcome = "ready") => (AllEnded /\ history = steps)

\* Between two steps, after a step with two tool calls, one a sub-agent.
BetweenStepsAfterBatch ==
    /\ pc = "ready"
    /\ Len(calls) = 2
    /\ IsSubAgent(calls[2].tool)
    /\ calls[1].tool = "tavilySearch"

Rank(state) ==
    CASE state = "input-streaming" -> 0
      [] state = "input-available" -> 1
      [] OTHER -> 2

\* C9: the state of a tool part only moves forward, input-streaming ->
\* input-available -> output-available | output-error, and the two output
\* states are final.
PartStateMonotonic ==
    [][\A i \in 1..Len(calls) :
          i <= Len(calls')
          => /\ Rank(calls'[i].state) >= Rank(calls[i].state)
             /\ Rank(calls[i].state) = 2 => calls'[i].state = calls[i].state]_vars

\* A part that went through input-available and ended in output-error.
PartEndedInError ==
    \E i \in 1..Len(calls) :
        calls[i].state = "output-error" /\ calls[i].events = <<"start", "args", "error">>

\* C10: the stream events of a tool call come in the order start, args,
\* result or error, each at most once.
EventsOrdered ==
    \A i \in 1..Len(calls) :
        calls[i].events \in
            { <<"start">>, <<"start", "args">>, <<"start", "args", "result">>,
              <<"start", "args", "error">>, <<"start", "error">> }

\* A call with all three events, start, args and result.
CallFullyStreamed ==
    \E i \in 1..Len(calls) : calls[i].events = <<"start", "args", "result">>

\* C17: a tool call whose input does not match the tool's inputSchema never
\* reaches execute: it runs nothing, starts no sub-agent loop and ends as an
\* error part; every call that reached execute had valid input.
InvalidInputNeverExecuted ==
    \A i \in 1..Len(calls) :
        /\ calls[i].executed => calls[i].input = "valid"
        /\ calls[i].input = "invalid" =>
              /\ ~Running(calls[i])
              /\ calls[i].subSteps = 0
              /\ calls[i].state = "output-error"
              /\ calls[i].events = <<"start", "error">>

\* A factCheck call with invalid input ended as an error while a tangent call
\* of the same step, with valid input, runs its loop.
InvalidCallBesideRunningLoop ==
    \E i, j \in 1..Len(calls) :
        /\ calls[i].tool = "factCheck"
        /\ calls[i].input = "invalid"
        /\ calls[i].state = "output-error"
        /\ calls[j].tool = "findRandomTangents"
        /\ calls[j].input = "valid"
        /\ SubRunning(calls[j])
        /\ calls[j].subSteps > 0

(***************************************************************************)
(* The client's reconstruction of the assistant message (useChat).  The    *)
(* stream delivers text events and the tool events of each tool call in    *)
(* the order the orchestrator emitted them; every event that arrives is    *)
(* kept in the log and applied to the parts of the message.                *)
(***************************************************************************)
\* Events of one assistant message.
MaxLog == 5

OpenEvents == {"text-start", "start"}

\* The part an opening event adds to the message.
OpenedPart(e) ==
    IF e.ev = "text-start"
    THEN [id |-> e.id, kind |-> "text", state |-> "text", deltas |-> 0]
    ELSE [id |-> e.id, kind |-> "tool", state |-> ApplyEvent("none", e.ev),
          deltas |-> 0]

\* The part after an event addressed to it.
UpdatedPart(p, e) ==
    IF e.ev = "text-delta"
    THEN [p EXCEPT !.deltas = @ + 1]
    ELSE [p EXCEPT !.state = ApplyEvent(@, e.ev)]

\* A reconstruction that puts the newest part first.
ApplyChunkNewestFirst(ps, e) ==
    IF e.ev \in OpenEvents
    THEN <<OpenedPart(e)>> \o ps
    ELSE [i \in 1..Len(ps) |->
            IF ps[i].id = e.id THEN UpdatedPart(ps[i], e) ELSE ps[i]]

\* The parts after one more event: an opening event appends a part, any other
\* event changes the part with its id where it stands.
ApplyChunk(ps, e) ==
    IF e.ev \in OpenEvents
    THEN Append(ps, OpenedPart(e))
    ELSE [i \in 1..Len(ps) |->
            IF ps[i].id = e.id THEN UpdatedPart(ps[i], e) ELSE ps[i]]

\* The parts rebuilt from a whole event log, replayed in arrival order.
RECURSIVE Replay(_)
Replay(l) ==
    IF l = <<>> THEN <<>>
    ELSE ApplyChunk(Replay(SubSeq(l, 1, Len(l) - 1)), l[Len(l)])

\* The client receives one event.
Receive(e) ==
    /\ log' = Append(log, e)
    /\ parts' = ApplyChunk(parts, e)

\* The last event the stream carried for part id ("none" before its first).
RECURSIVE LastEvent(_, _)
LastEvent(l, id) ==
    IF l = <<>> THEN "none"
    ELSE IF l[Len(l)].id = id THEN l[Len(l)].ev
    ELSE LastEvent(SubSeq(l, 1, Len(l) - 1), id)

\* The events that may follow the last event of a part.
FollowUps(last) ==
    CASE last \in {"text-start", "text-delta"} -> {"text-delta"}
      [] last = "start" -> {"args", "error"}
      [] last = "args" -> {"result", "error"}
      [] OTHER -> {}

\* The number of parts the stream has opened.
Opened(l) == Len(SelectSeq(l, LAMBDA e : e.ev \in OpenEvents))

\* The orchestrator emits the first event of a new text or tool part.
StreamOpen(ev) ==
    /\ Len(log) < MaxLog
    /\ Receive([id |-> Opened(log) + 1, ev |-> ev])

\* The orchestrator emits a further event of a part it has opened.
StreamUpdate(id, ev) ==
    /\ Len(log) < MaxLog
    /\ ev \in FollowUps(LastEvent(log, id))
    /\ Receive([id |-> id, ev |-> ev])

StreamNext ==
    \/ (\E ev \in OpenEvents : StreamOpen(ev)) /\ UNCHANGED <<serverVars, viewVars, sideVars>>
    \/ (\E id \in 1..Opened(log) :
            \E ev \in {"text-delta", "args", "result", "error"} :
                StreamUpdate(id, ev)) /\ UNCHANGED <<serverVars, viewVars, sideVars>>

StreamSpec == Init /\ [][StreamNext]_vars

\* The ids of the parts in message order.
PartIds(ps) == [i \in 1..Len(ps) |-> ps[i].id]

\* The ids of the opening events in arrival order.
OpenOrder(l) ==
    LET opens == SelectSeq(l, LAMBDA e : e.ev \in OpenEvents)
    IN  [i \in 1..Len(opens) |-> opens[i].id]

TransportStatus ==
    CASE response = "none" -> "idle"
      [] response \in {"http500", "rejected"} -> "error"
      [] outcome \in {"error", "aborted"} -> "error"
      [] outcome = "ready" -> "ready"
      [] steps = 0 /\ pc = "ready" -> "submitted"
      [] OTHER -> "streaming"

\* C12: every stream ends in ready or error, and a turn aborted mid-stream
\* ends with the terminal error event (status error), its parts kept.
TerminalErrorOnAbort ==
    /\ pc = "done" => TransportStatus \in {"ready", "error"}
    /\ reqAborted /\ pc = "done" => TransportStatus = "error"

(***************************************************************************)
(* extractSourcesFromMessage: the sources of a message, from its           *)
(* source-url parts and from the outputs of its tool parts.                *)
(***************************************************************************)
\* Parts of one rendered message.
MaxParts == 3

\* part.type.startsWith("tool-"), the type held as <<prefix, rest>>.
IsToolPart(part) == part.type[1] = "tool-"

NoOutput == [shape |-> "none", items |-> <<>>]

\* A search-like output: shape "results" has a results array, "array" is an
\* array itself, "object" is a single object with its own url and title.
Output(shape, items) == [shape |-> shape, items |-> items]

Item(url, title) == [url |-> url, title |-> title]

SourceUrlPart(url, title) ==
    [type |-> <<"source-url">>, state |-> "done", url |-> url,
     title |-> title, output |-> NoOutput]

ToolPart(name, state, output) ==
    [type |-> <<"tool-", name>>, state |-> state, url |-> "", title |-> "",
     output |-> output]

TextPart ==
    [type |-> <<"text">>, state |-> "done", url |-> "", title |-> "",
     output |-> NoOutput]

\* The parts a rendered message is drawn from.
SourceParts ==
    {SourceUrlPart("u1", "A"), SourceUrlPart("u1", ""),
     SourceUrlPart("", "A"), SourceUrlPart("", ""), TextPart,
     ToolPart("tavilySearch", "input-available", NoOutput),
     ToolPart("tavilySearch", "output-available", Output("results", <<>>)),
     ToolPart("tavilySearch", "output-available",
              Output("results", <<Item("u1", "B")>>)),
     ToolPart("tavilySearch", "output-available",
              Output("results", <<Item("u2", ""), Item("u1", "A")>>)),
     ToolPart("tavilySearch", "output-available",
              Output("results", <<Item("", "B"), Item("u2", "B")>>)),
     ToolPart("factCheck", "output-available",
              Output("array", <<Item("u2", "A"), Item("u2", "B")>>)),
     ToolPart("summarize", "output-available",
              Output("object", <<Item("u1", "B")>>)),
     ToolPart("summarize", "output-available",
              Output("object", <<Item("", "A")>>))}

\* The entry pushed for a result that has a url.
ResultSource(result) ==
    [url |-> result.url, title |-> Or(result.title, Or(result.url, "Source"))]

\* The entries of the results of an array, those without url skipped.
RECURSIVE ResultSources(_)
ResultSources(results) ==
    IF results = <<>> THEN <<>>
    ELSE (IF Head(results).url # "" THEN <<ResultSource(Head(results))>>
          ELSE <<>>) \o ResultSources(Tail(results))

\* The entries one part pushes.
PartSources(part) ==
    (IF part.type = <<"source-url">>
     THEN <<[url |-> Or(part.url, ""),
             title |-> Or(part.title, Or(part.url, "Source"))]>>
     ELSE <<>>)
    \o
    (IF IsToolPart(part) /\ part.output.shape # "none"
     THEN ResultSources(part.output.items)
     ELSE <<>>)

\* The entries pushed over all parts, in part order.
RECURSIVE CollectSources(_)
CollectSources(ps) ==
    IF ps = <<>> THEN <<>>
    ELSE PartSources(Head(ps)) \o CollectSources(Tail(ps))

\* A filter that keeps the last entry of each URL.
RECURSIVE DedupeKeepLast(_)
DedupeKeepLast(list) ==
    IF list = <<>> THEN <<>>
    ELSE LET rest == DedupeKeepLast(Tail(list))
         IN  IF \E i \in 1..Len(rest) : rest[i].url = Head(list).url
             THEN rest
             ELSE <<Head(list)>> \o rest

\* The filter over the seen set: an entry is kept unless its URL was seen.
RECURSIVE DedupeByUrl(_)
DedupeByUrl(list) ==
    IF list = <<>> THEN <<>>
    ELSE LET kept == DedupeByUrl(SubSeq(list, 1, Len(list) - 1))
             last == list[Len(list)]
         IN  IF \E i \in 1..Len(kept) : kept[i].url = last.url
             THEN kept
             ELSE Append(kept, last)

extractSourcesFromMessage(m) == DedupeByUrl(CollectSources(m))

\* A part arrives and the message is rendered again with its sources.
RenderSources(part) ==
    /\ Len(message) < MaxParts
    /\ message' = Append(message, part)
    /\ sources' = extractSourcesFromMessage(message')

SourceNext ==
    (\E part \in SourceParts : RenderSources(part))
        /\ UNCHANGED <<serverVars, streamVars, activityVars, chatVars, sideVars>>

SourceSpec == Init /\ [][SourceNext]_vars

\* The URLs and titles a message cites, in part order.
RECURSIVE Citations(_)
Citations(ps) ==
    IF ps = <<>> THEN <<>>
    ELSE LET p == Head(ps)
             cited == IF p.type = <<"source-url">>
                      THEN <<Item(p.url, p.title)>>
                      ELSE IF IsToolPart(p)
                      THEN SelectSeq(p.output.items, LAMBDA r : r.url # "")
                      ELSE <<>>
         IN  cited \o Citations(Tail(ps))

\* The title shown for a citation: its title, or its URL when it has none.
ShownTitle(c) ==
    IF c.title # "" THEN c.title ELSE IF c.url # "" THEN c.url ELSE "Source"

\* C13: the source list has at most one entry per URL, every cited URL has
\* its entry, and the entry of a URL carries the title of the first
\* citation of that URL in part order.
OneSourcePerUrl ==
    LET cs == Citations(message)
    IN  /\ \A i, j \in 1..Len(sources) :
              sources[i].url = sources[j].url => i = j
        /\ \A k \in 1..Len(cs) :
              \E i \in 1..Len(sources) : sources[i].url = cs[k].url
        /\ \A i \in 1..Len(sources) :
              \E k \in 1..Len(cs) :
                  /\ cs[k].url = sources[i].url
                  /\ \A h \in 1..(k - 1) : cs[h].url # cs[k].url
                  /\ sources[i].title = ShownTitle(cs[k])

\* A source-url part and a later tool output cite the same URL under
\* different titles; the one entry of the URL has the part's title.
SameUrlTwoTitles ==
    /\ Len(message) = 2
    /\ message[1] = SourceUrlPart("u1", "A")
    /\ message[2] = ToolPart("tavilySearch", "output-available",
                             Output("results", <<Item("u1", "B")>>))
    /\ sources = <<[url |-> "u1", title |-> "A"]>>

(***************************************************************************)
(* getCurrentToolActivity: the labels of the tools at work, for the loader.*)
(***************************************************************************)
\* Messages of the conversation, and parts over all of them.
MaxMessages == 2

MaxActivityParts == 4

\* The parts the messages are drawn from; customTool is a tool the label
\* table does not know.
ActivityParts ==
    {TextPart,
     ToolPart("tavilySearch", "input-streaming", NoOutput),
     ToolPart("tavilySearch", "input-available", NoOutput),
     ToolPart("tavilySearch", "output-available", Output("results", <<>>)),
     ToolPart("tavilySearch", "output-error", NoOutput),
     ToolPart("customTool", "input-available", NoOutput),
     ToolPart("customTool", "output-available", Output("results", <<>>)),
     ToolPart("factCheck", "input-available", NoOutput)}

\* part.type.replace("tool-", "") of a tool part.
ToolName(part) == part.type[2]

\* The label shown for a tool name; a name not in the table shows as it is.
DisplayName(toolName) ==
    CASE toolName = "tavilySearch" -> "Searching web"
      [] toolName = "factCheck" -> "Fact-checking"
      [] toolName = "summarize" -> "Summarizing"
      [] toolName = "findRandomTangents" -> "Finding tangents"
      [] OTHER -> toolName

\* The tool parts the filter keeps.
IsActiveToolPart(part) ==
    /\ IsToolPart(part)
    /\ part.state \in {"input-available", "input-streaming", "output-available"}

\* A loader that also names the tools that have returned.
ShowsActivityWhenDone(part) ==
    part.state \in {"input-available", "input-streaming", "output-available"}

\* The kept parts whose label is pushed.
ShowsActivity(part) == part.state \in {"input-available", "input-streaming"}

\* The labels pushed over the kept parts, in part order.
RECURSIVE ActivityLabels(_)
ActivityLabels(ps) ==
    IF ps = <<>> THEN <<>>
    ELSE (IF ShowsActivity(Head(ps))
          THEN <<DisplayName(ToolName(Head(ps)))>>
          ELSE <<>>) \o ActivityLabels(Tail(ps))

getCurrentToolActivity(ms) ==
    IF Len(ms) = 0 THEN <<>>
    ELSE ActivityLabels(SelectSeq(ms[Len(ms)], IsActiveToolPart))

\* The parts held over all messages.
RECURSIVE TotalParts(_)
TotalParts(ms) ==
    IF ms = <<>> THEN 0 ELSE Len(Head(ms)) + TotalParts(Tail(ms))

\* A new message joins the conversation; the loader is computed again.
AddMessage ==
    /\ Len(messages) < MaxMessages
    /\ messages' = Append(messages, <<>>)
    /\ activities' = getCurrentToolActivity(messages')

\* A part joins the most recent message; the loader is computed again.
AddPart(part) ==
    /\ Len(messages) > 0
    /\ TotalParts(messages) < MaxActivityParts
    /\ messages' = [messages EXCEPT ![Len(messages)] = Append(@, part)]
    /\ activities' = getCurrentToolActivity(messages')

ActivityNext ==
    \/ AddMessage /\ UNCHANGED <<serverVars, streamVars, sourceVars, chatVars, sideVars>>
    \/ (\E part \in ActivityParts : AddPart(part))
           /\ UNCHANGED <<serverVars, streamVars, sourceVars, chatVars, sideVars>>

ActivitySpec == Init /\ [][ActivityNext]_vars

\* The in-flight tool parts of the most recent message, in part order.
InFlightParts ==
    IF messages = <<>> THEN <<>>
    ELSE SelectSeq(messages[Len(messages)],
                   LAMBDA p : /\ p.type[1] = "tool-"
                              /\ p.state \in {"input-streaming",
                                              "input-available"})

KnownTools == {"tavilySearch", "factCheck", "summarize", "findRandomTangents"}

\* C14: the loader has exactly one label per in-flight tool part of the most
\* recent message, in part order (so none for a part that has its output or
\* error, and none for an older message); the label of tavilySearch is
\* "Searching web" and the label of a tool outside the table is its name.
OneLabelPerInFlightPart ==
    /\ Len(activities) = Len(InFlightParts)
    /\ \A i \in 1..Len(activities) :
         LET name == InFlightParts[i].type[2]
         IN  /\ name = "tavilySearch" => activities[i] = "Searching web"
             /\ name \notin KnownTools => activities[i] = name

\* An older message with a search in flight, and a most recent message with
\* an unknown tool in flight, a search that returned and a search in flight.
LoaderOfLastMessage ==
    /\ Len(messages) = 2
    /\ messages[1] = <<ToolPart("tavilySearch", "input-available", NoOutput)>>
    /\ messages[2] =
         <<ToolPart("customTool", "input-available", NoOutput),
           ToolPart("tavilySearch", "output-available",
                    Output("results", <<>>)),
           ToolPart("tavilySearch", "input-streaming", NoOutput)>>
    /\ activities = <<"customTool", "Searching web">>

(***************************************************************************)
(* Request-level errors.                                                   *)
(***************************************************************************)
\* C15: a request whose body is not JSON or has no messages is answered with
\* the non-streamed status-500 error payload, and no loop is started for it.
BadBodyRejected ==
    reqBody \in {"malformed", "noMessages"} =>
        /\ response = "http500"
        /\ payload # ""
        /\ pc = "idle"

\* C16: the error message of a failed request is the generic one, whatever
\* the message of the exception behind it.
GenericErrorPayload ==
    response = "http500" => payload = "Internal server error"

(***************************************************************************)
(* The Chat component: the conversation, and the effect that parses the    *)
(* assistant messages for the side-quest count and the search log.  A text *)
(* is held as its lines; a bullet line as its characters after the bullet. *)
(***************************************************************************)
\* User turns of the conversation, and lines and tool parts streamed in all.
MaxTurns == 2

MaxStreamed == 3

\* Bullet lines: a query alone, a query with a reason after "-" or ":", and
\* a query with a separator and nothing after it.
BulletLines == {<<"a">>, <<"a", "-", "r">>, <<"a", ":", "r">>, <<"a", "-">>}

Line(kind) == [kind |-> kind, chars |-> <<>>]

Bullet(chars) == [kind |-> "bullet", chars |-> chars]

\* The lines a text is made of: plain words, a line with the word "tangent",
\* an empty line, the two section headers, and bullet lines.
TextLines ==
    {Line("words"), Line("mention"), Line("blank"),
     Line("sideHeader"), Line("searchHeader")}
    \cup {Bullet(chars) : chars \in BulletLines}

\* The lines that arrive over the stream of a conversation.
StreamedLines ==
    {Line("mention"), Line("sideHeader"), Line("searchHeader"),
     Bullet(<<"a">>), Bullet(<<"a", "-", "r">>)}

ChatTextPart(text) == [type |-> <<"text">>, text |-> text]

\* A search tool part as useChat holds it: it has input and output, and
\* neither a toolCall nor a query field.
ChatSearchPart == [type |-> <<"tool-", "tavilySearch">>, text |-> <<>>]

ChatMessage(role, ps) == [role |-> role, parts |-> ps]

\* line.split(/[-:]/): the pieces between the separators.
RECURSIVE Split(_)
Split(chars) ==
    IF chars = <<>> THEN << <<>> >>
    ELSE LET rest == Split(Tail(chars))
         IN  IF Head(chars) \in {"-", ":"}
             THEN << <<>> >> \o rest
             ELSE << <<Head(chars)>> \o rest[1] >> \o Tail(rest)

\* pieces.join(" - ").
RECURSIVE Join(_)
Join(pieces) ==
    IF pieces = <<>> THEN <<>>
    ELSE IF Len(pieces) = 1 THEN pieces[1]
    ELSE pieces[1] \o <<" - ">> \o Join(Tail(pieces))

\* The index of the first line of a kind, 0 when the text has none.
FirstLine(text, kind) ==
    IF \E i \in 1..Len(text) : text[i].kind = kind
    THEN CHOOSE i \in 1..Len(text) :
            /\ text[i].kind = kind
            /\ \A j \in 1..(i - 1) : text[j].kind # kind
    ELSE 0

\* The lines the section regex captures after the header at index h: from the
\* first line that is not empty up to the next empty line (or a line of a
\* stopping kind), or to the end of the text.
Section(text, h, stops) ==
    LET rest == {i \in (h + 1)..Len(text) : text[i].kind # "blank"}
    IN  IF h = 0 \/ rest = {} THEN <<>>
        ELSE LET from == CHOOSE i \in rest : \A j \in rest : i <= j
                 ends == {i \in (from + 1)..Len(text) : text[i].kind \in stops}
                 to == IF ends = {} THEN Len(text)
                       ELSE (CHOOSE i \in ends : \A j \in ends : i <= j) - 1
             IN  SubSeq(text, from, to)

\* The bullet lines of a section, the bullet stripped.
BulletsOf(section) ==
    LET bullets == SelectSeq(section, LAMBDA l : l.kind = "bullet")
    IN  [i \in 1..Len(bullets) |-> bullets[i].chars]

Min(a, b) == IF a <= b THEN a ELSE b

Entry(query, reason) == [query |-> query, reason |-> reason]

\* setSearchLog for a tool call or a bullet with a reason: the entry is added
\* unless the log has one with the same query and reason.
AddEntry(prev, query, reason) ==
    IF \E i \in 1..Len(prev) : prev[i].query = query /\ prev[i].reason = reason
    THEN prev
    ELSE Append(prev, Entry(query, reason))

\* setSearchLog for a bullet without reason: the entry is added unless the
\* log has one with the same query and an empty reason.
AddQueryOnly(prev, query) ==
    IF \E i \in 1..Len(prev) : prev[i].query = query /\ prev[i].reason = <<>>
    THEN prev
    ELSE Append(prev, Entry(query, <<"No reason provided">>))

\* One bullet of the "Searches I ran" section joins the log.
LogBullet(prev, chars) ==
    LET pieces == Split(chars)
    IN  IF Len(pieces) >= 2
        THEN AddEntry(prev, pieces[1], Join(Tail(pieces)))
        ELSE IF Len(pieces) = 1 /\ pieces[1] # <<>>
        THEN AddQueryOnly(prev, pieces[1])
        ELSE prev

RECURSIVE LogBullets(_, _)
LogBullets(prev, bullets) ==
    IF bullets = <<>> THEN prev
    ELSE LogBullets(LogBullet(prev, Head(bullets)), Tail(bullets))

\* What one text part adds to the count: the bullets of its side-quest
\* section, and its mentions of a tangent, two at most.
TextCount(text) ==
    LET sideQuests ==
            BulletsOf(Section(text, FirstLine(text, "sideHeader"),
                              {"blank", "searchHeader"}))
        tangentMentions ==
            Len(SelectSeq(text, LAMBDA l : l.kind = "mention"))
    IN  Len(sideQuests) + Min(tangentMentions, 2)

\* The log after the bullets of the text's "Searches I ran" section.
TextLog(prev, text) ==
    LogBullets(prev, BulletsOf(Section(text, FirstLine(text, "searchHeader"),
                                       {"blank"})))

\* The query and reason read from a search tool part: the fields read are
\* not there, so the defaults are taken.
SearchQuery == <<"Unknown query">>

SearchReason == <<"Research query">>

\* query.toLowerCase().includes("tangent" / "interesting" / "side").
IsTangent(query) ==
    \E i \in 1..Len(query) : query[i] \in {"tangent", "interesting", "side"}

\* The effect on one part; tangents counts the tangent searches of the message.
PartEffect(st, part) ==
    IF part.type = <<"tool-", "tavilySearch">>
    THEN [st EXCEPT !.log = AddEntry(@, SearchQuery, SearchReason),
                    !.tangents = @ + (IF IsTangent(SearchQuery) THEN 1 ELSE 0)]
    ELSE IF part.type = <<"text">>
    THEN [st EXCEPT !.count = @ + TextCount(part.text),
                    !.log = TextLog(@, part.text)]
    ELSE st

RECURSIVE PartsEffect(_, _)
PartsEffect(st, ps) ==
    IF ps = <<>> THEN st
    ELSE PartsEffect(PartEffect(st, Head(ps)), Tail(ps))

\* The effect on one message: only assistant messages are parsed.
MessageEffect(st, m) ==
    IF m.role = "assistant"
    THEN LET after == PartsEffect([st EXCEPT !.tangents = 0], m.parts)
         IN  [after EXCEPT !.count = @ + after.tangents]
    ELSE st

\* One run of the effect over all messages, on top of the count and log held.
RECURSIVE RunEffect(_, _)
RunEffect(st, ms) ==
    IF ms = <<>> THEN st
    ELSE RunEffect(MessageEffect(st, Head(ms)), Tail(ms))

\* The messages change: the effect runs over the new messages.
MessagesChange(ms) ==
    LET st == RunEffect([count |-> sideQuestCount, log |-> searchLog,
                         tangents |-> 0], ms)
    IN  /\ transcript' = ms
        /\ sideQuestCount' = st.count
        /\ searchLog' = st.log

UserTurns(ms) == Len(SelectSeq(ms, LAMBDA m : m.role = "user"))

RECURSIVE StreamedIn(_)
StreamedIn(ps) ==
    IF ps = <<>> THEN 0
    ELSE (IF Head(ps).type = <<"text">> THEN Len(Head(ps).text) ELSE 1)
         + StreamedIn(Tail(ps))

\* The lines and tool parts streamed into the messages.
RECURSIVE Streamed(_)
Streamed(ms) ==
    IF ms = <<>> THEN 0
    ELSE (IF Head(ms).role = "assistant" THEN StreamedIn(Head(ms).parts) ELSE 0)
         + Streamed(Tail(ms))

\* A typed submit or a suggestion click: a message with text is sent.
handleSubmit(typed) ==
    /\ UserTurns(transcript) < MaxTurns
    /\ IF typed # ""
       THEN /\ MessagesChange(Append(transcript,
                    ChatMessage("user", <<ChatTextPart(<<Line("words")>>)>>)))
            /\ status' = "submitted"
            /\ input' = ""
       ELSE UNCHANGED <<chatVars, input>>

\* The response begins: the assistant message joins the conversation.
StreamStart ==
    /\ status = "submitted"
    /\ status' = "streaming"
    /\ MessagesChange(Append(transcript, ChatMessage("assistant", <<>>)))

StreamingMessage ==
    /\ status = "streaming"
    /\ Len(transcript) > 0
    /\ transcript[Len(transcript)].role = "assistant"
    /\ Streamed(transcript) < MaxStreamed

\* A stream whose text goes into the oldest assistant message.
StreamTextIntoOldest(line) ==
    /\ StreamingMessage
    /\ MessagesChange([transcript EXCEPT
            ![2].parts = Append(@, ChatTextPart(<<line>>))])
    /\ UNCHANGED status

\* A line of text arrives: it joins the text part at the end of the message,
\* or opens one.
StreamText(line) ==
    /\ StreamingMessage
    /\ LET n == Len(transcript)
           ps == transcript[n].parts
           grown == IF ps # <<>> /\ ps[Len(ps)].type = <<"text">>
                    THEN [ps EXCEPT ![Len(ps)].text = Append(@, line)]
                    ELSE Append(ps, ChatTextPart(<<line>>))
       IN  MessagesChange([transcript EXCEPT ![n].parts = grown])
    /\ UNCHANGED status

\* A search tool part arrives.
StreamSearch ==
    /\ StreamingMessage
    /\ MessagesChange([transcript EXCEPT
            ![Len(transcript)].parts = Append(@, ChatSearchPart)])
    /\ UNCHANGED status

\* The stream ends: the assistant message is final.
StreamFinish ==
    /\ status = "streaming"
    /\ status' = "ready"
    /\ UNCHANGED <<transcript, sideQuestCount, searchLog>>

\* The request or the stream fails.
StreamError ==
    /\ status \in {"submitted", "streaming"}
    /\ status' = "error"
    /\ UNCHANGED <<transcript, sideQuestCount, searchLog>>

handleReset ==
    /\ transcript' = <<>>
    /\ sideQuestCount' = 0
    /\ searchLog' = <<>>
    /\ UNCHANGED status

\* What Chat's handleSubmit leaves alone: it sets the input state itself.
SubmitFrame ==
    UNCHANGED <<serverVars, streamVars, sourceVars, activityVars, budgetVars>>

ChatFrame == SubmitFrame /\ UNCHANGED inputVars

ChatNext ==
    \/ (\E typed \in {"", "q"} : handleSubmit(typed))
            /\ SubmitFrame /\ UNCHANGED inputText
    \/ StreamStart /\ ChatFrame
    \/ (\E line \in StreamedLines : StreamText(line)) /\ ChatFrame
    \/ StreamSearch /\ ChatFrame
    \/ StreamFinish /\ ChatFrame
    \/ StreamError /\ ChatFrame
    \/ handleReset /\ ChatFrame

ChatSpec == Init /\ [][ChatNext]_vars

\* C18: the search log never holds two entries with the same query and
\* reason, bullets without a reason included.
SearchLogDeduplicated ==
    \A i, j \in 1..Len(searchLog) :
        (/\ searchLog[i].query = searchLog[j].query
         /\ searchLog[i].reason = searchLog[j].reason) => i = j

\* C19: while the only assistant message of the conversation is still
\* streaming, nothing has been added to the count or to the log.
OnlyFinalizedTextCounted ==
    (/\ status = "streaming"
     /\ Len(transcript) = 2
     /\ transcript[2].role = "assistant") =>
        /\ sideQuestCount = 0
        /\ searchLog = <<>>

\* C20: no message is submitted while the status is submitted or streaming.
OneTurnInFlight ==
    [][(status \in {"submitted", "streaming"}) =>
          (UserTurns(transcript') <= UserTurns(transcript))]_vars

\* The messages that are final: all but an assistant message being streamed.
Finalized(ms) ==
    IF /\ status = "streaming"
       /\ ms # <<>>
       /\ ms[Len(ms)].role = "assistant"
    THEN SubSeq(ms, 1, Len(ms) - 1)
    ELSE ms

\* The final messages are still there, as they were.
KeepsFinalized ==
    /\ Len(transcript') >= Len(Finalized(transcript))
    /\ \A i \in 1..Len(Finalized(transcript)) : transcript'[i] = transcript[i]

ReqPOST(r) ==
    /\ requests[r].pc = "idle"
    /\ requests' = [requests EXCEPT ![r].pc = "ready"]
    /\ UNCHANGED agentState

ReqCallModel(r) ==
    /\ requests[r].pc = "ready"
    /\ requests[r].steps < MaxRequestSteps
    /\ requests' = [requests EXCEPT ![r].pc = "model", ![r].steps = @ + 1,
                                    ![r].calls = <<>>]
    /\ UNCHANGED agentState

ReqModelFail(r) ==
    /\ requests[r].pc = "model"
    /\ requests[r].calls = <<>>
    /\ requests' = [requests EXCEPT ![r].pc = "done", ![r].outcome = "error"]
    /\ UNCHANGED agentState

\* The model calls tool t with valid input and the tool is dispatched.
ReqToolCall(r, t) ==
    /\ requests[r].pc = "model"
    /\ requests[r].calls = <<>>
    /\ requests' = [requests EXCEPT
            ![r].calls = <<Dispatch(Parsed(NewCall(t), TRUE))>>]
    /\ UNCHANGED agentState

ReqSearchReturn(r) ==
    /\ requests[r].pc = "model"
    /\ requests[r].calls # <<>>
    /\ requests[r].calls[1].run = "exec"
    /\ requests' = [requests EXCEPT ![r].calls[1] = Settled(@)]
    /\ UNCHANGED agentState

\* A sub-agent instance that counts the steps of its runs on itself.
ReqSubModelStepOnInstance(r, resp) ==
    /\ requests[r].pc = "model"
    /\ requests[r].calls # <<>>
    /\ requests[r].calls[1].run = "subReady"
    /\ resp \in SubResponses(requests[r].calls[1].tool)
    /\ agentState' = [agentState EXCEPT ![requests[r].calls[1].tool] = @ + 1]
    /\ LET c == requests[r].calls[1]
       IN  requests' = [requests EXCEPT ![r].calls[1] =
               SubCall([c EXCEPT !.subSteps = agentState[c.tool]], resp)]

\* One round-trip of a generate call on the shared instance: the steps of
\* the run belong to the call.
ReqSubModelStep(r, resp) ==
    /\ requests[r].pc = "model"
    /\ requests[r].calls # <<>>
    /\ requests[r].calls[1].run = "subReady"
    /\ resp \in SubResponses(requests[r].calls[1].tool)
    /\ requests' = [requests EXCEPT ![r].calls[1] = SubCall(@, resp)]
    /\ UNCHANGED agentState

ReqSubToolsDone(r) ==
    /\ requests[r].pc = "model"
    /\ requests[r].calls # <<>>
    /\ requests[r].calls[1].run = "subTools"
    /\ requests' = [requests EXCEPT ![r].calls[1] = SubAfterTools(@)]
    /\ UNCHANGED agentState

ReqStepFinish(r) ==
    /\ requests[r].pc = "model"
    /\ \A i \in 1..Len(requests[r].calls) : Ended(requests[r].calls[i])
    /\ requests' = [requests EXCEPT
            ![r].history = @ + 1,
            ![r].pc = IF requests[r].calls = <<>>
                         \/ OrchStopWhen(requests[r].steps)
                      THEN "done" ELSE "ready",
            ![r].outcome = IF requests[r].calls = <<>>
                              \/ OrchStopWhen(requests[r].steps)
                           THEN "ready" ELSE @]
    /\ UNCHANGED agentState

ConcFrame ==
    UNCHANGED <<response, reqAborted, pc, steps, calls, history, outcome,
                streamError, requestVars, clientVars, sideVars>>

ConcNext ==
    \/ (\E r \in Requests : ReqPOST(r)) /\ ConcFrame
    \/ (\E r \in Requests : ReqCallModel(r)) /\ ConcFrame
    \/ (\E r \in Requests : ReqModelFail(r)) /\ ConcFrame
    \/ (\E r \in Requests : \E t \in OrchTools : ReqToolCall(r, t)) /\ ConcFrame
    \/ (\E r \in Requests : ReqSearchReturn(r)) /\ ConcFrame
    \/ (\E r \in Requests : \E resp \in {"text", "fail", "toolCalls"} :
            ReqSubModelStep(r, resp)) /\ ConcFrame
    \/ (\E r \in Requests : ReqSubToolsDone(r)) /\ ConcFrame
    \/ (\E r \in Requests : ReqStepFinish(r)) /\ ConcFrame

ConcSpec == Init /\ [][ConcNext]_vars

\* C22: requests share no mutable state: a step never changes what the
\* sub-agent instances hold, and a step of one request leaves the step
\* count, history, outcome and sub-agent runs of every other request alone.
RequestsIndependent ==
    [][/\ agentState' = agentState
       /\ \A r, q \in Requests :
            (r # q /\ requests'[q] # requests[q]) =>
                requests'[r] = requests[r]]_vars

\* Two requests run a loop on the same tangent instance at the same time,
\* each at a step of its own.
SameInstanceTwoRuns ==
    /\ requests[1].calls # <<>>
    /\ requests[2].calls # <<>>
    /\ requests[1].calls[1].tool = "findRandomTangents"
    /\ requests[2].calls[1].tool = "findRandomTangents"
    /\ SubRunning(requests[1].calls[1])
    /\ SubRunning(requests[2].calls[1])
    /\ requests[1].calls[1].subSteps = 3
    /\ requests[2].calls[1].subSteps = 1

(***************************************************************************)
(* The parsing effect as a function of the messages: one run over an       *)
(* assistant message, from an empty count and log.                         *)
(***************************************************************************)
\* Parts of the parsed message.
MaxEffectParts == 3

Header(kind, lines) == <<Line(kind)>> \o lines

\* Texts of a part: words only, one and three mentions of a tangent, a
\* side-quest section of two bullets closed by an empty line, and "Searches
\* I ran" sections with a bare query, a query with an empty reason, and the
\* same query and reason written with "-" and with ":".
EffectTexts ==
    {<<Line("words")>>,
     <<Line("mention")>>,
     <<Line("mention"), Line("words"), Line("mention"), Line("mention")>>,
     Header("sideHeader", <<Bullet(<<"a">>), Bullet(<<"b">>), Line("blank"),
                            Bullet(<<"c">>)>>),
     Header("searchHeader", <<Bullet(<<"a">>)>>),
     Header("searchHeader", <<Bullet(<<"a", "-">>)>>),
     Header("searchHeader", <<Bullet(<<"a", "-", "r">>),
                              Bullet(<<"a", ":", "r">>)>>)}

EffectParts == {ChatTextPart(text) : text \in EffectTexts} \cup {ChatSearchPart}

SeqsUpTo(S, n) == UNION {[1..k -> S] : k \in 0..n}

\* The effect runs once over a conversation of one assistant message.
ParseMessage(ps) ==
    /\ transcript = <<>>
    /\ MessagesChange(<<ChatMessage("assistant", ps)>>)
    /\ UNCHANGED status

EffectNext ==
    (\E ps \in SeqsUpTo(EffectParts, MaxEffectParts) : ParseMessage(ps))
        /\ ChatFrame

EffectSpec == Init /\ [][EffectNext]_vars

NoneYet == [count |-> 0, log |-> <<>>, tangents |-> 0]

Perms(n) == {f \in [1..n -> 1..n] : \A i, j \in 1..n : f[i] = f[j] => i = j}

Permuted(ps, f) == [i \in 1..Len(ps) |-> ps[f[i]]]

EntrySet(entries) == {entries[i] : i \in 1..Len(entries)}

\* C23: parsed in any order of its parts, the message adds the same amount
\* to the count and the same set of entries to the log.
OrderIndependent ==
    transcript # <<>> =>
        \A f \in Perms(Len(transcript[1].parts)) :
            LET st == RunEffect(NoneYet,
                        <<ChatMessage("assistant",
                                      Permuted(transcript[1].parts, f))>>)
            IN  /\ st.count = sideQuestCount
                /\ EntrySet(st.log) = EntrySet(searchLog)

\* C24: the mentions of a tangent in an assistant message add two at most
\* to the count (a message with no side-quest section and no tangent search
\* adds nothing else).
MentionsCappedPerMessage ==
    (/\ transcript # <<>>
     /\ \A i \in 1..Len(transcript[1].parts) :
            FirstLine(transcript[1].parts[i].text, "sideHeader") = 0) =>
        sideQuestCount <= 2

\* C25: the count is a function of the current messages: what one run of
\* the effect over them adds to an empty count, however often the effect ran.
CountFunctionOfMessages ==
    sideQuestCount = RunEffect(NoneYet, transcript).count

\* C26: POST always resolves to a Response: the stream, or the status-500
\* payload the catch block builds from whatever was thrown on the way.
HandlerAlwaysResponds ==
    reqBody # "" =>
        \/ response = "stream"
        \/ response = "http500" /\ payload # ""

\* The tools whose execute runs factCheckerAgent or summarizerAgent.
NoToolAgents == {"factCheck", "summarize"}

\* C27: a fact-check or summarizer loop that waits for its model has made no
\* round-trip yet, and the round-trip it makes ends the loop: an invocation
\* whose model call succeeds made exactly one.
OneRoundTrip ==
    [][\A i \in 1..Len(calls) :
          (calls[i].tool \in NoToolAgents /\ calls[i].run = "subReady") =>
              /\ calls[i].subSteps = 0
              /\ (i <= Len(calls') /\ calls'[i] # calls[i]) =>
                    /\ Ended(calls'[i])
                    /\ calls'[i].state \in {"output-available", "output-error"}]_vars

\* A fact-check or summarizer invocation has returned its text.
NoToolAgentAnswered ==
    \E i \in 1..Len(calls) :
        /\ calls[i].tool \in NoToolAgents
        /\ calls[i].state = "output-available"

\* How deep the agents are nested at a call of the orchestrator: 1 while only
\* the orchestrator runs, 2 while the call's sub-agent loop runs, 3 when the
\* tools that loop is calling could start a sub-agent loop of their own.
Depth(c) ==
    IF ~(IsSubAgent(c.tool) /\ SubRunning(c))
    THEN 1
    ELSE IF c.run = "subTools" /\ \E t \in SubTools(c.tool) : IsSubAgent(t)
         THEN 3
         ELSE 2

\* C29: agent nesting is at most 2 deep, and only a loop that has tools (the
\* tangent agent, which has search alone) ever waits for a tool of its own.
NestingAtMostTwo ==
    \A i \in 1..Len(calls) :
        /\ Depth(calls[i]) <= 2
        /\ calls[i].run = "subTools" =>
              /\ calls[i].tool = "findRandomTangents"
              /\ SubTools(calls[i].tool) = {"tavilySearch"}

\* The tangent agent's loop is waiting for a search it called.
TangentLoopSearching ==
    \E i \in 1..Len(calls) :
        /\ calls[i].tool = "findRandomTangents"
        /\ calls[i].run = "subTools"
        /\ Depth(calls[i]) = 2

\* The round-trips of one turn, counted.  The turn record holds the
\* orchestrator's steps, the tool calls of the step still to run (pending),
\* the sub-agent tool whose loop is running with that loop's steps, the
\* sub-agent loops started, the model round-trips made by all loops, and
\* whether every response so far had at most one tool call.  The calls of a
\* step are taken one after the other: the counts do not depend on how the
\* loops of one step interleave.

\* The call just ended: the step goes on with its next call, or ends, and
\* the orchestrator stops at its step limit or makes its next round-trip.
AfterCall(tr) ==
    LET rest == [tr EXCEPT !.pending = @ - 1, !.tool = "none", !.subSteps = 0]
    IN  IF rest.pending > 0
        THEN [rest EXCEPT !.pc = "tools"]
        ELSE [rest EXCEPT !.pc = IF OrchStopWhen(rest.steps)
                                 THEN "done" ELSE "ready"]

\* One round-trip of the orchestrator: its response has n tool calls (none:
\* the answer, or a failed call, which both end the turn).
TurnCallModel(n) ==
    /\ turn.pc = "ready"
    /\ turn' = [turn EXCEPT !.steps = @ + 1, !.trips = @ + 1,
                            !.pending = n,
                            !.single = @ /\ n <= 1,
                            !.pc = IF n = 0 THEN "done" ELSE "tools"]

\* The next call of the step runs: search returns or fails at once, a
\* sub-agent tool starts its agent's loop.
TurnToolStart(t) ==
    /\ turn.pc = "tools"
    /\ turn' = IF IsSubAgent(t)
               THEN [turn EXCEPT !.pc = "sub", !.tool = t, !.subSteps = 0,
                                 !.loops = @ + 1]
               ELSE AfterCall(turn)

\* One round-trip of the running sub-agent loop: tool calls keep the loop
\* going, a text or a failure ends it.
TurnSubModel(resp) ==
    /\ turn.pc = "sub"
    /\ resp \in SubResponses(turn.tool)
    /\ LET made == [turn EXCEPT !.subSteps = @ + 1, !.trips = @ + 1]
       IN  turn' = IF resp = "toolCalls"
                   THEN [made EXCEPT !.pc = "subTools"]
                   ELSE AfterCall(made)

\* The sub-agent's tool calls have returned: the loop stops at its step
\* limit or makes its next round-trip.
TurnSubToolsDone ==
    /\ turn.pc = "subTools"
    /\ turn' = IF SubStopWhen(turn.tool, turn.subSteps)
               THEN AfterCall(turn)
               ELSE [turn EXCEPT !.pc = "sub"]

BudgetFrame == UNCHANGED <<serverVars, clientVars, inputVars>>

BudgetNext ==
    \/ (\E n \in 0..MaxStepCalls : TurnCallModel(n)) /\ BudgetFrame
    \/ (\E t \in OrchTools : TurnToolStart(t)) /\ BudgetFrame
    \/ (\E resp \in {"text", "fail", "toolCalls"} : TurnSubModel(resp))
            /\ BudgetFrame
    \/ TurnSubToolsDone /\ BudgetFrame

BudgetSpec == Init /\ [][BudgetNext]_vars

\* The most steps any sub-agent loop can take.
MostSubSteps ==
    CHOOSE n \in {SubMaxSteps(t) : t \in SubAgents} :
        \A t \in SubAgents : SubMaxSteps(t) <= n

RoundTripBudget == OrchMaxSteps + OrchMaxSteps * MostSubSteps

\* C28: while every response of the orchestrator had at most one tool call,
\* the turn has started at most 15 sub-agent loops and made at most
\* 15 + 15 * 5 model round-trips, orchestrator and sub-agent loops together.
RoundTripsWithinBudget ==
    turn.single =>
        /\ turn.loops <= OrchMaxSteps
        /\ turn.trips <= RoundTripBudget

\* A turn of one tool call per step that used the whole budget.
BudgetUsedUp ==
    /\ turn.single
    /\ turn.pc = "done"
    /\ turn.loops = OrchMaxSteps
    /\ turn.trips = RoundTripBudget

\* The input component (InputDemo) under Chat.

\* const suggestions: two of the five texts offered above the textarea.
Suggestions == {"What's the capital of Lebanon?", "Explain how black holes form"}

\* What the textarea can hold after a change: nothing, typed words, or an
\* edited suggestion.
TypedTexts == {"", "q", "q?"} \cup Suggestions

\* useEffect(() => setText(value), [value]): the effect runs after a render
\* in which value differs from the render before, and only then.
ValueEffect(old, new, current) == IF new # old THEN new ELSE current

\* onChange of the textarea.
onChange(typed) ==
    /\ inputText' = typed
    /\ UNCHANGED <<chatVars, input>>

\* InputDemo's handleSubmit, called by the form with the textarea's text:
\* without text it returns; otherwise onSubmit (Chat's handleSubmit), then
\* setText("").
InputHandleSubmit ==
    IF inputText = ""
    THEN UNCHANGED <<chatVars, inputVars>>
    ELSE /\ handleSubmit(inputText)
         /\ inputText' = ValueEffect(input, input', "")

\* handleSuggestionClick: setText(suggestion), then onSubmit.
handleSuggestionClick(suggestion) ==
    /\ handleSubmit(suggestion)
    /\ inputText' = ValueEffect(input, input', suggestion)

\* What Chat does besides taking submissions: the stream of the turn, reset.
ChatStep ==
    \/ StreamStart
    \/ \E line \in StreamedLines : StreamText(line)
    \/ StreamSearch
    \/ StreamFinish
    \/ StreamError
    \/ handleReset

InputNext ==
    \/ (\E typed \in TypedTexts : onChange(typed)) /\ SubmitFrame
    \/ InputHandleSubmit /\ SubmitFrame
    \/ (\E suggestion \in Suggestions : handleSuggestionClick(suggestion))
            /\ SubmitFrame
    \/ ChatStep /\ ChatFrame

InputSpec == Init /\ [][InputNext]_vars

\* C30: a step that sends a message, a typed submit or a suggestion click,
\* leaves the textarea empty.
TextEmptyAfterSubmit ==
    [][UserTurns(transcript') > UserTurns(transcript) => inputText' = ""]_vars

====
